---- MODULE Spec2Model ----
(***************************************************************************)
(* Model of obsidian_remote_mcp: the vault registry and path resolution of *)
(* paths.py and the tag synchronizer of tags.py.                           *)
(*                                                                         *)
(* A string is a sequence of one-character strings.  A path is a record    *)
(* [abs, parts]: abs says whether it is anchored at "/", parts are its     *)
(* segments.  The filesystem has no symbolic links, so Path.resolve is the *)
(* lexical elimination of ".." segments.                                   *)
(***************************************************************************)
EXTENDS Naturals, Sequences, FiniteSets

VARIABLES vaults, pres, files, tres

vars == <<vaults, pres, files, tres>>

(***************************************************************************)
(* Bounds of the model.                                                    *)
(***************************************************************************)
MaxChunks == 2
MaxParts == 3
MaxBodyLen == 4
MaxFmTags == 1
MaxTags == 1
MaxWalkBodyLen == 2

(***************************************************************************)
(* Generic helpers.                                                        *)
(***************************************************************************)
SeqsUpTo(S, n) == UNION {[1..k -> S] : k \in 0..n}

IsPrefix(p, s) == Len(p) <= Len(s) /\ SubSeq(s, 1, Len(p)) = p

Last(s) == s[Len(s)]

Front(s) == SubSeq(s, 1, Len(s) - 1)

MinOf(S) == CHOOSE x \in S : \A y \in S : x <= y

MaxOf(S) == CHOOSE x \in S : \A y \in S : y <= x

(***************************************************************************)
(* Path segments.                                                          *)
(***************************************************************************)
CurDir == <<".">>

ParDir == <<".", ".">>

Tilde == <<"~">>

MdSuffix == <<".", "m", "d">>

HomeDir == <<<<"h">>>>

\* The segments path strings are built from.
Segs == {CurDir, ParDir, <<"a">>, <<"b">>, <<"n", ".", "t">>}

\* A path string: abs is a leading "/", segs the text between the slashes.
PathStrings == [abs : BOOLEAN, segs : SeqsUpTo(Segs, MaxParts)]

EmptyString == [abs |-> FALSE, segs |-> <<>>]

RECURSIVE DropCurDir(_)
DropCurDir(segs) ==
    IF segs = <<>> THEN <<>>
    ELSE IF Head(segs) = CurDir \/ Head(segs) = <<>> THEN DropCurDir(Tail(segs))
    ELSE <<Head(segs)>> \o DropCurDir(Tail(segs))

\* pathlib.Path(s): "." and empty segments vanish, ".." segments stay.
Path(s) == [abs |-> s.abs, parts |-> DropCurDir(s.segs)]

RECURSIVE Normalize(_, _)
Normalize(parts, acc) ==
    IF parts = <<>> THEN acc
    ELSE IF Head(parts) = ParDir
         THEN Normalize(Tail(parts), IF acc = <<>> THEN <<>> ELSE Front(acc))
         ELSE Normalize(Tail(parts), Append(acc, Head(parts)))

\* Path.resolve(strict=False) of an absolute path.
resolve(p) == [abs |-> TRUE, parts |-> Normalize(p.parts, <<>>)]

\* PurePath.relative_to succeeds: segment-wise prefix.
is_relative_to(p, root) == IsPrefix(root.parts, p.parts)

\* Index (1-based) of the last "." of a name, 0 when there is none.
LastDot(name) ==
    LET dots == {i \in 1..Len(name) : name[i] = "."}
    IN IF dots = {} THEN 0 ELSE MaxOf(dots)

\* PurePath.suffix of a final segment: "" unless the last dot is neither the
\* first nor the last character.
suffix(name) ==
    LET k == LastDot(name)
    IN IF 1 < k /\ k < Len(name) THEN SubSeq(name, k, Len(name)) ELSE <<>>

\* PurePath.name: the final segment, "" for the root.
name_of(p) == IF p.parts = <<>> THEN <<>> ELSE Last(p.parts)

(***************************************************************************)
(* paths.py                                                                *)
(***************************************************************************)
Vault(name, root) == [name |-> name, root |-> root]

\* expanduser: a leading "~" segment of a relative path becomes the home.
expanduser(p) ==
    IF ~p.abs /\ p.parts # <<>> /\ Head(p.parts) = Tilde
    THEN [abs |-> TRUE, parts |-> HomeDir \o Tail(p.parts)]
    ELSE p

VaultNames(vs) == {vs[i].name : i \in DOMAIN vs}

\* A chunk of the raw configuration: a path string with optional blanks
\* around it (pad); strip() removes the blanks.
strip_chunk(chunk) == [abs |-> chunk.abs, segs |-> chunk.segs]

\* parse_chunks without the duplicate-name check.
RECURSIVE parse_chunks_no_duplicate_check(_, _)
parse_chunks_no_duplicate_check(chunks, acc) ==
    IF chunks = <<>>
    THEN IF acc = <<>>
         THEN [ok |-> FALSE, err |-> "VaultConfigurationError", vaults |-> <<>>]
         ELSE [ok |-> TRUE, err |-> "", vaults |-> acc]
    ELSE LET candidate == strip_chunk(Head(chunks))
             path == expanduser(Path(candidate))
             root == resolve(path)
             name == name_of(root)
         IN IF candidate = EmptyString
            THEN parse_chunks_no_duplicate_check(Tail(chunks), acc)
            ELSE IF ~path.abs
                 THEN [ok |-> FALSE, err |-> "VaultConfigurationError", vaults |-> <<>>]
            ELSE parse_chunks_no_duplicate_check(Tail(chunks),
                                                 Append(acc, Vault(name, root)))

\* The loop of parse_vault_paths over raw.split(","): acc is the mapping
\* built so far, in insertion order.
RECURSIVE parse_chunks(_, _)
parse_chunks(chunks, acc) ==
    IF chunks = <<>>
    THEN IF acc = <<>>
         THEN [ok |-> FALSE, err |-> "VaultConfigurationError", vaults |-> <<>>]
         ELSE [ok |-> TRUE, err |-> "", vaults |-> acc]
    ELSE LET candidate == strip_chunk(Head(chunks))
             path == expanduser(Path(candidate))
             root == resolve(path)
             name == name_of(root)
         IN IF candidate = EmptyString THEN parse_chunks(Tail(chunks), acc)
            ELSE IF ~path.abs
                 THEN [ok |-> FALSE, err |-> "VaultConfigurationError", vaults |-> <<>>]
            ELSE IF name \in VaultNames(acc)
                 THEN [ok |-> FALSE, err |-> "VaultConfigurationError", vaults |-> <<>>]
            ELSE parse_chunks(Tail(chunks), Append(acc, Vault(name, root)))

\* raw is the sequence raw.split(",") yields; the empty string splits into
\* one empty chunk.
parse_vault_paths(raw) ==
    IF raw = <<[abs |-> FALSE, segs |-> <<>>, pad |-> FALSE]>>
    THEN [ok |-> FALSE, err |-> "VaultConfigurationError", vaults |-> <<>>]
    ELSE parse_chunks(raw, <<>>)

NoVault == 0

\* ensure_in_vault comparing the path as given, ".." segments unresolved.
ensure_in_vault_unresolved(path, vs) ==
    LET hits == {i \in DOMAIN vs : is_relative_to(path, vs[i].root)}
    IN IF hits = {} THEN NoVault ELSE MinOf(hits)

\* Index of the first configured vault whose root contains the resolved
\* path, NoVault (PermissionError) when none does.
ensure_in_vault(path, vs) ==
    LET resolved == resolve(path)
        hits == {i \in DOMAIN vs : is_relative_to(resolved, vs[i].root)}
    IN IF hits = {} THEN NoVault ELSE MinOf(hits)

VaultIndex(name, vs) == CHOOSE i \in DOMAIN vs : vs[i].name = name

SelectError(e) == [ok |-> FALSE, err |-> e, vault |-> NoVault, relative |-> <<>>]

\* _select_vault_and_relative falling back to the first vault whenever the
\* first segment names none.
select_vault_first_fallback(path, vs) ==
    IF path.abs
    THEN LET v == ensure_in_vault(path, vs)
         IN IF v = NoVault THEN SelectError("PermissionError")
            ELSE [ok |-> TRUE, err |-> "", vault |-> v,
                  relative |-> SubSeq(resolve(path).parts,
                                      Len(vs[v].root.parts) + 1,
                                      Len(resolve(path).parts))]
    ELSE IF path.parts = <<>> THEN SelectError("ValueError: empty")
    ELSE IF Head(path.parts) \in VaultNames(vs)
         THEN [ok |-> TRUE, err |-> "", vault |-> VaultIndex(Head(path.parts), vs),
               relative |-> Tail(path.parts)]
    ELSE [ok |-> TRUE, err |-> "", vault |-> 1, relative |-> path.parts]

select_vault_and_relative(path, vs) ==
    IF path.abs
    THEN LET v == ensure_in_vault(path, vs)
         IN IF v = NoVault THEN SelectError("PermissionError")
            ELSE [ok |-> TRUE, err |-> "", vault |-> v,
                  relative |-> SubSeq(resolve(path).parts,
                                      Len(vs[v].root.parts) + 1,
                                      Len(resolve(path).parts))]
    ELSE IF path.parts = <<>> THEN SelectError("ValueError: empty")
    ELSE IF Head(path.parts) \in VaultNames(vs)
         THEN [ok |-> TRUE, err |-> "", vault |-> VaultIndex(Head(path.parts), vs),
               relative |-> Tail(path.parts)]
    ELSE IF Len(vs) = 1
         THEN [ok |-> TRUE, err |-> "", vault |-> 1, relative |-> path.parts]
    ELSE SelectError("ValueError: ambiguous")

\* vault.root / relative
join(root, relative) == [abs |-> TRUE, parts |-> root.parts \o relative]

\* with_suffix(".md") of a path whose final segment has no suffix appends
\* ".md" to that segment; a path with no final segment ("/") raises.
with_suffix_md(p) == [abs |-> p.abs, parts |-> Front(p.parts) \o <<Last(p.parts) \o MdSuffix>>]

ResolveError(e) == [ok |-> FALSE, err |-> e, path |-> [abs |-> TRUE, parts |-> <<>>]]

ResolveOk(p) == [ok |-> TRUE, err |-> "", path |-> p]

\* ensure_markdown_suffix overriding an explicit suffix.
ensure_markdown_suffix_always(p) ==
    IF p.parts = <<>> THEN ResolveError("ValueError: empty name")
    ELSE ResolveOk(with_suffix_md(p))

ensure_markdown_suffix(p) ==
    IF suffix(name_of(p)) # <<>> THEN ResolveOk(p)
    ELSE IF p.parts = <<>> THEN ResolveError("ValueError: empty name")
    ELSE ResolveOk(with_suffix_md(p))

resolve_note_path(path_str, vs) ==
    LET raw_path == Path(path_str)
        sel == select_vault_and_relative(raw_path, vs)
        target == ensure_markdown_suffix(join(vs[sel.vault].root, sel.relative))
    IN IF ~sel.ok THEN ResolveError(sel.err)
       ELSE IF ~target.ok THEN target
       ELSE IF ensure_in_vault(target.path, vs) = NoVault
            THEN ResolveError("PermissionError")
       ELSE target

resolve_directory_path(path_str, vs) ==
    LET raw_path == Path(path_str)
        sel == select_vault_and_relative(raw_path, vs)
        target == join(vs[sel.vault].root, sel.relative)
    IN IF ~sel.ok THEN ResolveError(sel.err)
       ELSE IF ensure_in_vault(target, vs) = NoVault
            THEN ResolveError("PermissionError")
       ELSE ResolveOk(target)

(***************************************************************************)
(* The registry as a state machine: load_settings parses VAULT_PATHS, the  *)
(* service then resolves path strings against the registry.                *)
(***************************************************************************)
\* The chunks VAULT_PATHS is built from.
Chunks ==
    { [abs |-> FALSE, segs |-> <<>>, pad |-> FALSE],
      [abs |-> FALSE, segs |-> <<>>, pad |-> TRUE],
      [abs |-> FALSE, segs |-> <<<<"a">>>>, pad |-> FALSE],
      [abs |-> FALSE, segs |-> <<Tilde, <<"b">>>>, pad |-> FALSE],
      [abs |-> TRUE, segs |-> <<>>, pad |-> FALSE],
      [abs |-> TRUE, segs |-> <<<<"a">>>>, pad |-> TRUE],
      [abs |-> TRUE, segs |-> <<<<"b">>>>, pad |-> FALSE],
      [abs |-> TRUE, segs |-> <<<<"a">>, <<"b">>>>, pad |-> FALSE],
      [abs |-> TRUE, segs |-> <<<<"a">>, ParDir, <<"b">>>>, pad |-> FALSE] }

RawConfigs == SeqsUpTo(Chunks, MaxChunks) \ {<<>>}

NoResult == [op |-> "none"]

NoFiles == <<>>

InitPaths ==
    /\ vaults = <<>>
    /\ pres = NoResult
    /\ files = NoFiles
    /\ tres = NoResult

\* load_settings at process start: a valid VAULT_PATHS fixes the registry for
\* the lifetime of the process, an invalid one raises and leaves none.
LoadSettings ==
    /\ vaults = <<>>
    /\ pres = NoResult
    /\ \E raw \in RawConfigs :
           LET r == parse_vault_paths(raw)
           IN /\ vaults' = IF r.ok THEN r.vaults ELSE <<>>
              /\ pres' = [op |-> "parse_vault_paths", raw |-> raw, result |-> r]
    /\ UNCHANGED <<files, tres>>

ResolveNote ==
    /\ vaults # <<>>
    /\ pres = NoResult
    /\ \E s \in PathStrings :
           pres' = [op |-> "resolve_note_path", input |-> s,
                    result |-> resolve_note_path(s, vaults)]
    /\ UNCHANGED <<vaults, files, tres>>

ResolveDirectory ==
    /\ vaults # <<>>
    /\ pres = NoResult
    /\ \E s \in PathStrings :
           pres' = [op |-> "resolve_directory_path", input |-> s,
                    result |-> resolve_directory_path(s, vaults)]
    /\ UNCHANGED <<vaults, files, tres>>

\* The call returns: its result is handed to the caller.
ReturnPaths ==
    /\ pres # NoResult
    /\ pres' = NoResult
    /\ UNCHANGED <<vaults, files, tres>>

NextPaths == LoadSettings \/ ResolveNote \/ ResolveDirectory \/ ReturnPaths

SpecPaths == InitPaths /\ [][NextPaths]_vars

(***************************************************************************)
(* tags.py: strings, the inline-tag pattern and the front-matter block.    *)
(*                                                                         *)
(* A note's content is a record [fm, body]: body is the text after the     *)
(* front-matter block, fm is <<>> when the content does not start with a   *)
(* block and <<data>> when it does, data being the mapping yaml.safe_load  *)
(* reads from the block: [tags, other], where tags is the value of the     *)
(* `tags` key (kind "absent", "str" or "list", with its strings in items)  *)
(* and other says whether the mapping has further keys.                    *)
(***************************************************************************)
NL == "\n"

Hash == "#"

Whitespace == {" ", "\n", "\t"}

\* Code points of the characters the model writes, for sorted().
CodePoint(c) ==
    CASE c = "\t" -> 9
      [] c = "\n" -> 10
      [] c = " " -> 32
      [] c = "#" -> 35
      [] c = "-" -> 45
      [] c = "/" -> 47
      [] c = "a" -> 97
      [] c = "b" -> 98
      [] c = "w" -> 119

RECURSIVE LexLess(_, _)
LexLess(s, t) ==
    IF t = <<>> THEN FALSE
    ELSE IF s = <<>> THEN TRUE
    ELSE IF Head(s) = Head(t) THEN LexLess(Tail(s), Tail(t))
    ELSE CodePoint(Head(s)) < CodePoint(Head(t))

\* sorted(S) of a set of strings.
RECURSIVE sorted(_)
sorted(S) ==
    IF S = {} THEN <<>>
    ELSE LET m == CHOOSE x \in S : \A y \in S \ {x} : LexLess(x, y)
         IN <<m>> \o sorted(S \ {m})

Range(seq) == {seq[i] : i \in DOMAIN seq}

\* The class [A-Za-z0-9_\-/] of INLINE_TAG_PATTERN.
TagCharClass ==
    { "a", "b", "c", "d", "e", "f", "g", "h", "i", "j", "k", "l", "m",
      "n", "o", "p", "q", "r", "s", "t", "u", "v", "w", "x", "y", "z",
      "A", "B", "C", "D", "E", "F", "G", "H", "I", "J", "K", "L", "M",
      "N", "O", "P", "Q", "R", "S", "T", "U", "V", "W", "X", "Y", "Z",
      "0", "1", "2", "3", "4", "5", "6", "7", "8", "9", "_", "-", "/" }

\* The class [\\w/] of the pattern's negative lookbehind: in the raw string
\* the doubled backslash is a literal backslash, so the class holds the
\* three characters backslash, w and slash.
LookbehindClass == {"\\", "w", "/"}

\* INLINE_TAG_PATTERN matches at position i of text.
MatchAt(text, i) ==
    /\ text[i] = Hash
    /\ i = 1 \/ text[i - 1] \notin LookbehindClass
    /\ i < Len(text)
    /\ text[i + 1] \in TagCharClass

\* Last position of the greedy run of tag characters that starts at j.
RECURSIVE TagEnd(_, _)
TagEnd(text, j) ==
    IF j < Len(text) /\ text[j + 1] \in TagCharClass THEN TagEnd(text, j + 1) ELSE j

\* INLINE_TAG_PATTERN.finditer(text) from position i on: the matches, left
\* to right and non-overlapping, each as the matched text "#" + group(1).
RECURSIVE finditer(_, _)
finditer(text, i) ==
    IF i > Len(text) THEN <<>>
    ELSE IF MatchAt(text, i)
         THEN <<SubSeq(text, i, TagEnd(text, i + 1))>>
              \o finditer(text, TagEnd(text, i + 1) + 1)
         ELSE finditer(text, i + 1)

extract_inline_tags(text) == sorted(Range(finditer(text, 1)))

RECURSIVE lstrip(_)
lstrip(s) ==
    IF s # <<>> /\ Head(s) \in Whitespace THEN lstrip(Tail(s)) ELSE s

RECURSIVE rstrip(_)
rstrip(s) ==
    IF s # <<>> /\ Last(s) \in Whitespace THEN rstrip(Front(s)) ELSE s

strip(s) == rstrip(lstrip(s))

\* The value _normalize_tag never returns: it stands for the raised TagError.
TagError == <<>>

normalize_tag(tag) ==
    LET t == strip(tag)
    IN IF t = <<>> THEN TagError
       ELSE IF Head(t) = Hash THEN t
       ELSE <<Hash>> \o t

strip_hash(tag) == IF tag # <<>> /\ Head(tag) = Hash THEN Tail(tag) ELSE tag

NoTags == [kind |-> "absent", items |-> <<>>]

EmptyData == [tags |-> NoTags, other |-> FALSE]

\* bool(frontmatter): the mapping has a key.
NonEmptyData(data) == data.tags.kind # "absent" \/ data.other

split_frontmatter(content) ==
    [ frontmatter |-> IF content.fm = <<>> THEN EmptyData ELSE content.fm[1],
      raw_frontmatter |-> content.fm,
      body |-> content.body ]

\* The block _dump_frontmatter writes, as the mapping read back from it.
dump_frontmatter(data) == <<data>>

extract_frontmatter_tags(data) ==
    sorted(IF data.tags.kind = "str" THEN {data.tags.items[1]}
           ELSE IF data.tags.kind = "list" THEN Range(data.tags.items)
           ELSE {})

\* [f"#{tag}" for tag in tags]
hash_prefixed(tags) == {<<Hash>> \o tags[i] : i \in DOMAIN tags}

manage_tags(content) ==
    LET parts == split_frontmatter(content)
        inline_tags == extract_inline_tags(parts.body)
        front_tags == hash_prefixed(extract_frontmatter_tags(parts.frontmatter))
    IN sorted(Range(inline_tags) \cup front_tags)


\* What a call leaves behind: whether it returned (ok) or raised (err),
\* whether it wrote the file, and the file's content afterwards.
Returned(content, wrote) == [ok |-> TRUE, err |-> "", wrote |-> wrote, content |-> content]

Raised(content, e) == [ok |-> FALSE, err |-> e, wrote |-> FALSE, content |-> content]

\* [_normalize_tag(tag) for tag in tags]
normalize_all(tags) == [i \in DOMAIN tags |-> normalize_tag(tags[i])]

\* " ".join(tags)
RECURSIVE join_space(_)
join_space(tags) ==
    IF tags = <<>> THEN <<>>
    ELSE IF Len(tags) = 1 THEN tags[1]
    ELSE tags[1] \o <<" ">> \o join_space(Tail(tags))

RECURSIVE filter_missing(_, _)
filter_missing(tags, existing) ==
    IF tags = <<>> THEN <<>>
    ELSE IF Head(tags) \in existing THEN filter_missing(Tail(tags), existing)
    ELSE <<Head(tags)>> \o filter_missing(Tail(tags), existing)

\* add_tags with the tag line appended to the body only when the note has
\* no front-matter block.
add_tags_append_without_block(content, tags) ==
    LET normalized == normalize_all(tags)
        parts == split_frontmatter(content)
        frontmatter == parts.frontmatter
        raw_frontmatter == parts.raw_frontmatter
        body == parts.body
        fm_tags == extract_frontmatter_tags(frontmatter)
        inline_existing == Range(extract_inline_tags(body))
        front_existing == {normalize_tag(fm_tags[i]) : i \in DOMAIN fm_tags}
        existing == inline_existing \cup front_existing
        to_add == filter_missing(normalized, existing)
        updated == sorted(Range(fm_tags) \cup {strip_hash(to_add[i]) : i \in DOMAIN to_add})
        ended == IF body = <<>> \/ Last(body) # NL THEN body \o <<NL>> ELSE body
        new_content ==
            IF raw_frontmatter # <<>>
            THEN [fm |-> dump_frontmatter([frontmatter EXCEPT
                                  !.tags = [kind |-> "list", items |-> updated]]),
                  body |-> body]
            ELSE [fm |-> raw_frontmatter,
                  body |-> ended \o join_space(to_add) \o <<NL>>]
    IN IF TagError \in Range(normalized) THEN Raised(content, "TagError")
       ELSE IF normalized = <<>> THEN Returned(content, FALSE)
       ELSE IF TagError \in front_existing THEN Raised(content, "TagError")
       ELSE IF to_add = <<>> THEN Returned(content, FALSE)
       ELSE Returned(new_content, TRUE)

add_tags(content, tags) ==
    LET normalized == normalize_all(tags)
        parts == split_frontmatter(content)
        frontmatter == parts.frontmatter
        raw_frontmatter == parts.raw_frontmatter
        body == parts.body
        fm_tags == extract_frontmatter_tags(frontmatter)
        inline_existing == Range(extract_inline_tags(body))
        front_existing == {normalize_tag(fm_tags[i]) : i \in DOMAIN fm_tags}
        existing == inline_existing \cup front_existing
        to_add == filter_missing(normalized, existing)
        updated == sorted(Range(fm_tags) \cup {strip_hash(to_add[i]) : i \in DOMAIN to_add})
        new_frontmatter ==
            IF raw_frontmatter # <<>>
            THEN dump_frontmatter([frontmatter EXCEPT
                                      !.tags = [kind |-> "list", items |-> updated]])
            ELSE raw_frontmatter
        ended == IF body = <<>> \/ Last(body) # NL THEN body \o <<NL>> ELSE body
        new_body == ended \o join_space(to_add) \o <<NL>>
    IN IF TagError \in Range(normalized) THEN Raised(content, "TagError")
       ELSE IF normalized = <<>> THEN Returned(content, FALSE)
       ELSE IF TagError \in front_existing THEN Raised(content, "TagError")
       ELSE IF to_add = <<>> THEN Returned(content, FALSE)
       ELSE Returned([fm |-> new_frontmatter, body |-> new_body], TRUE)

\* INLINE_TAG_PATTERN.sub(_replacement, body) of remove_tags, from position i.
RECURSIVE sub_removed(_, _, _)
sub_removed(body, i, normalized) ==
    IF i > Len(body) THEN <<>>
    ELSE IF MatchAt(body, i)
         THEN LET e == TagEnd(body, i + 1)
                  full == SubSeq(body, i, e)
              IN (IF full \in normalized THEN <<>> ELSE full)
                 \o sub_removed(body, e + 1, normalized)
         ELSE <<body[i]>> \o sub_removed(body, i + 1, normalized)

\* Last position of the run of newlines that starts at i.
RECURSIVE NewlineRunEnd(_, _)
NewlineRunEnd(body, i) ==
    IF i < Len(body) /\ body[i + 1] = NL THEN NewlineRunEnd(body, i + 1) ELSE i

\* re.sub(r"\n{3,}", "\n\n", body), from position i.
RECURSIVE collapse_newlines(_, _)
collapse_newlines(body, i) ==
    IF i > Len(body) THEN <<>>
    ELSE IF body[i] = NL
         THEN LET e == NewlineRunEnd(body, i)
              IN (IF e - i + 1 >= 3 THEN <<NL, NL>> ELSE SubSeq(body, i, e))
                 \o collapse_newlines(body, e + 1)
         ELSE <<body[i]>> \o collapse_newlines(body, i + 1)

\* [tag for tag in fm_tags if _normalize_tag(tag) not in normalized]
RECURSIVE remaining_tags(_, _)
remaining_tags(fm_tags, normalized) ==
    IF fm_tags = <<>> THEN <<>>
    ELSE IF normalize_tag(Head(fm_tags)) \in normalized
         THEN remaining_tags(Tail(fm_tags), normalized)
         ELSE <<Head(fm_tags)>> \o remaining_tags(Tail(fm_tags), normalized)

\* set_or_pop_tags that stores the list even when it is empty.
set_tags_always(frontmatter, tags) ==
    [frontmatter EXCEPT !.tags = [kind |-> "list", items |-> tags]]

\* if tags: frontmatter["tags"] = tags, else: frontmatter.pop("tags", None)
set_or_pop_tags(frontmatter, tags) ==
    IF tags # <<>>
    THEN [frontmatter EXCEPT !.tags = [kind |-> "list", items |-> tags]]
    ELSE [frontmatter EXCEPT !.tags = NoTags]

\* dump_if_any that writes a block also for an empty mapping.
dump_always(frontmatter) == dump_frontmatter(frontmatter)

\* _dump_frontmatter(frontmatter) if frontmatter else ""
dump_if_any(frontmatter) ==
    IF NonEmptyData(frontmatter) THEN dump_frontmatter(frontmatter) ELSE <<>>

remove_tags(content, tags) ==
    LET normalized == Range(normalize_all(tags))
        parts == split_frontmatter(content)
        frontmatter == parts.frontmatter
        raw_frontmatter == parts.raw_frontmatter
        body == collapse_newlines(sub_removed(parts.body, 1, normalized), 1)
        fm_tags == extract_frontmatter_tags(frontmatter)
        remaining == remaining_tags(fm_tags, normalized)
        new_frontmatter ==
            IF raw_frontmatter # <<>>
            THEN dump_if_any(set_or_pop_tags(frontmatter, remaining))
            ELSE raw_frontmatter
    IN IF TagError \in normalized THEN Raised(content, "TagError")
       ELSE IF normalized = {} THEN Returned(content, FALSE)
       ELSE IF raw_frontmatter # <<>>
               /\ TagError \in {normalize_tag(fm_tags[i]) : i \in DOMAIN fm_tags}
            THEN Raised(content, "TagError")
       ELSE Returned([fm |-> new_frontmatter, body |-> body], TRUE)


(***************************************************************************)
(* One note under the tag operations.                                      *)
(***************************************************************************)
Note == "note.md"

\* The characters note bodies are written in.
BodyChars == {"#", "/", "a", "\n"}

Bodies == SeqsUpTo(BodyChars, MaxBodyLen)

\* The strings a front-matter `tags` value holds.
FmTagStrings == {<<"a">>, <<"#", "a">>}

TagValues ==
    {NoTags}
    \cup {[kind |-> "str", items |-> <<t>>] : t \in FmTagStrings}
    \cup {[kind |-> "list", items |-> ts] : ts \in SeqsUpTo(FmTagStrings, MaxFmTags)}

FrontMatters == {<<>>} \cup {<<d>> : d \in [tags : TagValues, other : BOOLEAN]}

Contents == [fm : FrontMatters, body : Bodies]

\* The tag strings callers pass.
TagStrings == {<<"a">>, <<"/">>, <<"a", " ", "a">>, <<" ">>}

TagLists == SeqsUpTo(TagStrings, MaxTags)

InitTags ==
    /\ vaults = <<>>
    /\ pres = NoResult
    /\ files \in [{Note} -> Contents]
    /\ tres = NoResult

\* A call is made on a note whose body is within the bound.
Callable(f) == tres = NoResult /\ Len(files[f].body) <= MaxBodyLen

ManageTags ==
    /\ Callable(Note)
    /\ tres' = [op |-> "manage_tags", before |-> files[Note], tags |-> <<>>,
                ok |-> TRUE, wrote |-> FALSE, result |-> manage_tags(files[Note])]
    /\ UNCHANGED <<vaults, pres, files>>

AddTags ==
    /\ Callable(Note)
    /\ \E tags \in TagLists :
           LET r == add_tags(files[Note], tags)
           IN /\ files' = [files EXCEPT ![Note] = r.content]
              /\ tres' = [op |-> "add_tags", before |-> files[Note], tags |-> tags,
                          ok |-> r.ok, wrote |-> r.wrote, result |-> <<>>]
    /\ UNCHANGED <<vaults, pres>>

RemoveTags ==
    /\ Callable(Note)
    /\ \E tags \in TagLists :
           LET r == remove_tags(files[Note], tags)
           IN /\ files' = [files EXCEPT ![Note] = r.content]
              /\ tres' = [op |-> "remove_tags", before |-> files[Note], tags |-> tags,
                          ok |-> r.ok, wrote |-> r.wrote, result |-> <<>>]
    /\ UNCHANGED <<vaults, pres>>

\* The call returns: its result is handed to the caller.
ReturnTags ==
    /\ tres # NoResult
    /\ tres' = NoResult
    /\ UNCHANGED <<vaults, pres, files>>

NextTags == ManageTags \/ AddTags \/ RemoveTags \/ ReturnTags

SpecTags == InitTags /\ [][NextTags]_vars


(***************************************************************************)
(* rename_tag over the files of a vault directory.                         *)
(***************************************************************************)
\* INLINE_TAG_PATTERN.subn(lambda ..., body)[0] of rename_tag, from position i.
RECURSIVE sub_renamed(_, _, _, _)
sub_renamed(body, i, old_tag, new_tag) ==
    IF i > Len(body) THEN <<>>
    ELSE IF MatchAt(body, i)
         THEN LET e == TagEnd(body, i + 1)
                  full == SubSeq(body, i, e)
              IN (IF full = old_tag THEN new_tag ELSE full)
                 \o sub_renamed(body, e + 1, old_tag, new_tag)
         ELSE <<body[i]>> \o sub_renamed(body, i + 1, old_tag, new_tag)

\* INLINE_TAG_PATTERN.subn(...)[1]: the number of matches substituted,
\* whatever the replacement function returned for them.
subn_count(body) == Len(finditer(body, 1))

\* The loop over fm_tags of rename_tag: the updated list.
RECURSIVE renamed_entries(_, _, _)
renamed_entries(fm_tags, old_tag, new_tag) ==
    IF fm_tags = <<>> THEN <<>>
    ELSE (IF normalize_tag(Head(fm_tags)) = old_tag
          THEN <<strip_hash(new_tag)>> ELSE <<Head(fm_tags)>>)
         \o renamed_entries(Tail(fm_tags), old_tag, new_tag)

\* The body of rename_tag's loop for one file: the content it leaves, whether
\* it wrote the file and what it adds to count.
rename_in_file(content, old_tag, new_tag) ==
    LET parts == split_frontmatter(content)
        frontmatter == parts.frontmatter
        raw_frontmatter == parts.raw_frontmatter
        body == parts.body
        replaced_body == sub_renamed(body, 1, old_tag, new_tag)
        body_count == subn_count(body)
        fm_tags == extract_frontmatter_tags(frontmatter)
        normalized_tags == {normalize_tag(fm_tags[i]) : i \in DOMAIN fm_tags}
        updated == renamed_entries(fm_tags, old_tag, new_tag)
        front_count ==
            IF raw_frontmatter # <<>>
            THEN Cardinality({i \in DOMAIN fm_tags : normalize_tag(fm_tags[i]) = old_tag})
            ELSE 0
        replaced_frontmatter ==
            IF raw_frontmatter # <<>>
            THEN dump_if_any(set_or_pop_tags(frontmatter, sorted(Range(updated))))
            ELSE raw_frontmatter
    IN IF raw_frontmatter # <<>> /\ TagError \in normalized_tags
       THEN [ok |-> FALSE, wrote |-> FALSE, count |-> 0, content |-> content]
       ELSE IF body_count + front_count > 0
            THEN [ok |-> TRUE, wrote |-> TRUE, count |-> body_count + front_count,
                  content |-> [fm |-> replaced_frontmatter, body |-> replaced_body]]
            ELSE [ok |-> TRUE, wrote |-> FALSE, count |-> 0, content |-> content]

\* No read_text or write_text call of the walk fails.
NoFault == [file |-> "", at |-> "none", left |-> "intact"]

\* What a failed write_text leaves of the file: open() failed and the file
\* is intact, or the file was opened (truncated) and the write failed.
Truncated == [fm |-> <<>>, body |-> <<>>]

\* The walk of rename_tag over the files in the order rglob yields them: fs
\* is the directory as written so far, written the files rewritten so far,
\* count the local variable. fault names the file whose read_text or
\* write_text raises OSError; the exception leaves the loop with count as
\* it stands.
RECURSIVE rename_walk(_, _, _, _, _, _, _)
rename_walk(order, fs, old_tag, new_tag, count, written, fault) ==
    IF order = <<>>
    THEN [ok |-> TRUE, err |-> "", count |-> count, files |-> fs, written |-> written]
    ELSE LET f == Head(order)
             r == rename_in_file(fs[f], old_tag, new_tag)
         IN IF fault.file = f /\ fault.at = "read"
            THEN [ok |-> FALSE, err |-> "OSError", count |-> count, files |-> fs,
                  written |-> written]
            ELSE IF ~r.ok
            THEN [ok |-> FALSE, err |-> "TagError", count |-> count, files |-> fs,
                  written |-> written]
            ELSE IF fault.file = f /\ fault.at = "write" /\ r.wrote
            THEN [ok |-> FALSE, err |-> "OSError", count |-> count,
                  files |-> IF fault.left = "truncated"
                            THEN [fs EXCEPT ![f] = Truncated] ELSE fs,
                  written |-> written]
            ELSE rename_walk(Tail(order), [fs EXCEPT ![f] = r.content],
                             old_tag, new_tag, count + r.count,
                             IF r.wrote THEN written \cup {f} ELSE written, fault)

rename_tag(old, new, order, fs, fault) ==
    LET old_tag == normalize_tag(old)
        new_tag == normalize_tag(new)
    IN IF old_tag = TagError \/ new_tag = TagError
       THEN [ok |-> FALSE, err |-> "TagError", count |-> 0, files |-> fs, written |-> {}]
       ELSE rename_walk(order, fs, old_tag, new_tag, 0, {}, fault)

\* The files below the root: two notes and a file that is no note.
MdFiles == {"n1.md", "sub/n2.md"}

OtherFile == "x.txt"

\* root.rglob("*.md") visits the notes in an order the filesystem decides.
WalkOrders ==
    {o \in [1..Cardinality(MdFiles) -> MdFiles] : Range(o) = MdFiles}

WalkChars == {"#", "a"}

\* The notes of the walk have no front-matter block or one whose only key
\* is `tags`.
WalkFrontMatters == {fm \in FrontMatters : fm = <<>> \/ ~fm[1].other}

WalkContents == [fm : WalkFrontMatters, body : SeqsUpTo(WalkChars, MaxWalkBodyLen)]

RenameStrings == {<<"a">>, <<"#", "/">>, <<" ">>}

InitRename ==
    /\ vaults = <<>>
    /\ pres = NoResult
    /\ \E notes \in [MdFiles -> WalkContents] :
           files = [f \in MdFiles \cup {OtherFile} |->
                       IF f \in MdFiles THEN notes[f]
                       ELSE [fm |-> <<>>, body |-> <<"#", "a">>]]
    /\ tres = NoResult

\* The failures the filesystem may answer a walk with: none, or an OSError
\* on reading or on writing one of the notes.
Faults ==
    {NoFault}
    \cup [file : MdFiles, at : {"read"}, left : {"intact"}]
    \cup [file : MdFiles, at : {"write"}, left : {"intact", "truncated"}]

\* NoteService.rename_tag: the answer carries `replacements` when rename_tag
\* returned and only `error` when it raised; count is rename_tag's local
\* variable when it returned or raised.
RenameTag ==
    /\ tres = NoResult
    /\ \A f \in MdFiles : Len(files[f].body) <= MaxWalkBodyLen
    /\ \E old \in RenameStrings, new \in RenameStrings, order \in WalkOrders,
          fault \in Faults :
           LET r == rename_tag(old, new, order, files, fault)
           IN /\ files' = r.files
              /\ tres' = [op |-> "rename_tag", before |-> files, old |-> old, new |-> new,
                          ok |-> r.ok, err |-> r.err, count |-> r.count,
                          replacements |-> IF r.ok THEN <<r.count>> ELSE <<>>,
                          written |-> r.written]
    /\ UNCHANGED <<vaults, pres>>

NextRename == RenameTag \/ ReturnTags

SpecRename == InitRename /\ [][NextRename]_vars


(***************************************************************************)
(* server.py: NoteService.move_note over a directory tree.                 *)
(***************************************************************************)
\* A directory tree: dirs the directories, notes the regular files with
\* their content, both by resolved path.
Tree(dirs, notes) == [dirs |-> dirs, notes |-> notes]

\* Path.exists() of a note path: a regular file is there. No directory has
\* the path of a note, a note path ending in a suffix.
exists(fs, p) == resolve(p).parts \in DOMAIN fs.notes

\* p.parent.mkdir(parents=True, exist_ok=True): the parent and the missing
\* directories above it exist afterwards.
mkdir_parents(fs, p) ==
    LET parent == Front(resolve(p).parts)
    IN Tree(fs.dirs \cup {SubSeq(parent, 1, k) : k \in 1..Len(parent)}, fs.notes)

\* Path.unlink() of an existing note.
unlink(fs, p) ==
    Tree(fs.dirs, [q \in DOMAIN fs.notes \ {resolve(p).parts} |-> fs.notes[q]])

\* source.rename(destination) of an existing note onto a free path.
rename(fs, source, destination) ==
    LET from == resolve(source).parts
        to == resolve(destination).parts
    IN Tree(fs.dirs,
            [q \in (DOMAIN fs.notes \ {from}) \cup {to} |->
                IF q = to THEN fs.notes[from] ELSE fs.notes[q]])

MoveAnswer(ok, err, fs) == [ok |-> ok, err |-> err, fs |-> fs]

\* NoteService.move_note: every exception is answered as an error, with the
\* tree as the calls before it left it.
move_note(src, dst, overwrite, vs, fs) ==
    LET source == resolve_note_path(src, vs)
        destination == resolve_note_path(dst, vs)
        made == mkdir_parents(fs, destination.path)
        cleared == IF exists(made, destination.path)
                   THEN unlink(made, destination.path) ELSE made
    IN IF ~source.ok THEN MoveAnswer(FALSE, source.err, fs)
       ELSE IF ~destination.ok THEN MoveAnswer(FALSE, destination.err, fs)
       ELSE IF ~exists(made, source.path)
            THEN MoveAnswer(FALSE, "Source note does not exist", made)
       ELSE IF exists(made, destination.path) /\ ~overwrite
            THEN MoveAnswer(FALSE, "Destination exists", made)
       ELSE IF ~exists(cleared, source.path)
            THEN MoveAnswer(FALSE, "FileNotFoundError", cleared)
       ELSE MoveAnswer(TRUE, "", rename(cleared, source.path, destination.path))

\* The registries of the moves: one vault, or two.
MoveRoot(name) == [abs |-> TRUE, parts |-> <<name>>]

MoveRegistries ==
    {<<Vault(<<"a">>, MoveRoot(<<"a">>))>>,
     <<Vault(<<"a">>, MoveRoot(<<"a">>)), Vault(<<"b">>, MoveRoot(<<"b">>))>>}

\* The path strings callers pass: "", "n", "a/n", "m" and "a/d/n".
MoveStrings ==
    {[abs |-> FALSE, segs |-> segs] :
        segs \in {<<>>, <<<<"n">>>>, <<<<"a">>, <<"n">>>>, <<<<"m">>>>,
                  <<<<"a">>, <<"d">>, <<"n">>>>}}

\* The note paths of the initial trees and the contents notes have.
NotePaths == {<<<<"a">>, <<"n">> \o MdSuffix>>, <<<<"a">>, <<"m">> \o MdSuffix>>}

NoteTexts == {"x", "y"}

InitMove ==
    /\ vaults \in MoveRegistries
    /\ pres = NoResult
    /\ \E held \in SUBSET NotePaths : \E notes \in [held -> NoteTexts] :
           files = Tree({vaults[i].root.parts : i \in DOMAIN vaults}, notes)
    /\ tres = NoResult

MoveNote ==
    /\ tres = NoResult
    /\ \E src \in MoveStrings, dst \in MoveStrings, overwrite \in BOOLEAN :
           LET r == move_note(src, dst, overwrite, vaults, files)
           IN /\ files' = r.fs
              /\ tres' = [op |-> "move_note", src |-> src, dst |-> dst,
                          overwrite |-> overwrite, before |-> files,
                          ok |-> r.ok, err |-> r.err]
    /\ UNCHANGED <<vaults, pres>>

NextMove == MoveNote \/ ReturnTags

SpecMove == InitMove /\ [][NextMove]_vars


(***************************************************************************)
(* Properties of the registry.                                             *)
(***************************************************************************)
\* The canonical form of a sequence of segments, computed from the right:
\* a ".." cancels the nearest segment to its left that is not cancelled.
RECURSIVE CanonFrom(_, _, _)
CanonFrom(parts, i, skip) ==
    IF i = 0 THEN <<>>
    ELSE IF parts[i] = ParDir THEN CanonFrom(parts, i - 1, skip + 1)
    ELSE IF skip > 0 THEN CanonFrom(parts, i - 1, skip - 1)
    ELSE Append(CanonFrom(parts, i - 1, 0), parts[i])

Canonical(parts) == CanonFrom(parts, Len(parts), 0)

UnderRoot(parts, v) == IsPrefix(v.root.parts, Canonical(parts))

Resolved ==
    pres.op \in {"resolve_note_path", "resolve_directory_path"}

\* The segments of the input as pathlib sees them.
InputParts == Path(pres.input).parts

\* C1: a path returned by resolve_note_path or resolve_directory_path has a
\* canonical form equal to or below some configured vault root.
C1_ResolvedInsideSomeVault ==
    (Resolved /\ pres.result.ok) =>
        \E i \in DOMAIN vaults : UnderRoot(pres.result.path.parts, vaults[i])

\* C1 witness: a path with a ".." segment was resolved and returned.
C1_Witness ==
    /\ Resolved
    /\ pres.result.ok
    /\ \E i \in DOMAIN pres.result.path.parts : pres.result.path.parts[i] = ParDir

HasVaultPrefix ==
    /\ Resolved
    /\ ~pres.input.abs
    /\ InputParts # <<>>
    /\ Head(InputParts) \in VaultNames(vaults)

\* C2: a relative path whose first segment names vault V resolves, if at
\* all, to a path whose canonical form lies under V's root.
C2_PrefixedPathUnderNamedVault ==
    (HasVaultPrefix /\ pres.result.ok) =>
        UnderRoot(pres.result.path.parts,
                  vaults[VaultIndex(Head(InputParts), vaults)])

\* A segment has an extension when a dot that is neither its first nor its
\* last character is followed by no further dot.
HasExtension(seg) ==
    \E k \in 2..(Len(seg) - 1) :
        /\ seg[k] = "."
        /\ \A j \in (k + 1)..Len(seg) : seg[j] # "."

\* <path> with ".md" appended to a last segment that has no extension.
WithDefaultSuffix(parts) ==
    IF HasExtension(parts[Len(parts)]) THEN parts
    ELSE [parts EXCEPT ![Len(parts)] = @ \o MdSuffix]

SingleVaultRelativeNote ==
    /\ pres.op = "resolve_note_path"
    /\ Len(vaults) = 1
    /\ ~pres.input.abs
    /\ InputParts # <<>>

ExpectedNoteParts == vaults[1].root.parts \o WithDefaultSuffix(InputParts)

\* C3 as stated: in a single-vault registry every relative path resolves to
\* <root>/<path>, with ".md" appended when the last segment has no extension.
C3_Original ==
    SingleVaultRelativeNote =>
        /\ pres.result.ok
        /\ pres.result.path.parts = ExpectedNoteParts

\* <root>/<parts>, ".md" appended, is what resolve_note_path answers if it is
\* canonically under the root; if not, the call raises PermissionError.
AnswersWith(parts) ==
    LET expected == vaults[1].root.parts \o WithDefaultSuffix(parts)
    IN IF UnderRoot(expected, vaults[1])
       THEN /\ pres.result.ok
            /\ pres.result.path.parts = expected
       ELSE /\ ~pres.result.ok
            /\ pres.result.err = "PermissionError"

\* C3 amended: in a single-vault registry a relative path whose first segment
\* is not the vault's name resolves to <root>/<path> (".md" appended when the
\* last segment has no extension) if that path is canonically under the
\* root, and raises PermissionError if it is not; a first segment equal to
\* the vault's name is dropped and the rest resolved in the same way.
C3_SingleVaultSuffix ==
    SingleVaultRelativeNote =>
        /\ Head(InputParts) # vaults[1].name => AnswersWith(InputParts)
        /\ (Head(InputParts) = vaults[1].name /\ Len(InputParts) > 1) =>
               AnswersWith(Tail(InputParts))

\* C3 witness: an explicit extension was preserved below a sub-directory.
C3_Witness ==
    /\ SingleVaultRelativeNote
    /\ Head(InputParts) # vaults[1].name
    /\ pres.result.ok
    /\ Len(InputParts) > 1
    /\ HasExtension(InputParts[Len(InputParts)])
    /\ pres.result.path.parts = vaults[1].root.parts \o InputParts

Unprefixed ==
    /\ Resolved
    /\ Len(vaults) >= 2
    /\ ~pres.input.abs
    /\ InputParts # <<>>
    /\ Head(InputParts) \notin VaultNames(vaults)

\* C4: with two or more vaults a relative path whose first segment names no
\* vault fails with the ambiguous-path ValueError.
C4_AmbiguousWithoutPrefix ==
    Unprefixed =>
        /\ ~pres.result.ok
        /\ pres.result.err = "ValueError: ambiguous"

\* C4 witness: a two-segment unprefixed directory path was rejected.
C4_Witness ==
    /\ Unprefixed
    /\ pres.op = "resolve_directory_path"
    /\ Len(InputParts) = 2
    /\ ~pres.result.ok

Parsed == pres.op = "parse_vault_paths"

\* What a chunk of the configuration denotes: nothing when blank, else its
\* path after home expansion.
ChunkBlank(c) == c.segs = <<>> /\ ~c.abs

ChunkAbsolute(c) == c.abs \/ (c.segs # <<>> /\ c.segs[1] = Tilde)

ChunkRoot(c) ==
    Canonical(IF c.abs THEN DropCurDir(c.segs) ELSE HomeDir \o Tail(DropCurDir(c.segs)))

ChunkName(c) == IF ChunkRoot(c) = <<>> THEN <<>> ELSE ChunkRoot(c)[Len(ChunkRoot(c))]

NonBlank(raw) == {i \in DOMAIN raw : ~ChunkBlank(raw[i])}

\* C5: parse_vault_paths raises or returns a non-empty mapping of distinct
\* names, each the last segment of its absolute canonical root, one entry
\* per non-blank chunk; it raises for a non-absolute chunk, for two chunks
\* deriving the same name and when every chunk is blank.
C5_ParseVaultPaths ==
    Parsed =>
        LET raw == pres.raw
            r == pres.result
        IN /\ r.ok =>
                /\ r.vaults # <<>>
                /\ Len(r.vaults) = Cardinality(NonBlank(raw))
                /\ \A i \in DOMAIN r.vaults :
                       /\ r.vaults[i].root.abs
                       /\ ParDir \notin {r.vaults[i].root.parts[k] :
                                            k \in DOMAIN r.vaults[i].root.parts}
                       /\ r.vaults[i].name = name_of(r.vaults[i].root)
                       /\ \E k \in NonBlank(raw) :
                              /\ r.vaults[i].root.parts = ChunkRoot(raw[k])
                              /\ r.vaults[i].name = ChunkName(raw[k])
                /\ \A i, j \in DOMAIN r.vaults :
                       r.vaults[i].name = r.vaults[j].name => i = j
           /\ (\E k \in NonBlank(raw) : ~ChunkAbsolute(raw[k])) => ~r.ok
           /\ (\E k, l \in NonBlank(raw) :
                   /\ k # l
                   /\ ChunkAbsolute(raw[k])
                   /\ ChunkAbsolute(raw[l])
                   /\ ChunkName(raw[k]) = ChunkName(raw[l])) => ~r.ok
           /\ NonBlank(raw) = {} => ~r.ok

\* C5 witness: a blank chunk was skipped and a one-vault mapping returned.
C5_Witness ==
    /\ Parsed
    /\ pres.result.ok
    /\ Len(pres.raw) = 2
    /\ Len(pres.result.vaults) = 1

(***************************************************************************)
(* Properties of the tag synchronizer.                                     *)
(***************************************************************************)
\* A tag in its "#"-qualified form: trimmed, with one "#" put in front
\* unless it already starts with one.
Qualified(tag) ==
    LET t == strip(tag)
    IN IF t # <<>> /\ t[1] = Hash THEN t ELSE <<Hash>> \o t

\* The entries of the front-matter `tags` value of a content.
FrontEntries(content) ==
    IF content.fm = <<>> THEN {}
    ELSE Range(content.fm[1].tags.items)

\* The tags a content carries: inline in its body or in its front-matter.
InlineTagSet(content) == Range(finditer(content.body, 1))

FrontTagSet(content) == {Qualified(t) : t \in FrontEntries(content)}

StrictlySorted(seq) ==
    \A i, j \in DOMAIN seq : i < j => LexLess(seq[i], seq[j])

RequestedTags == {Qualified(tres.tags[i]) : i \in DOMAIN tres.tags}

\* C6: manage_tags returns the sorted, duplicate-free union of the inline
\* tags of the body and the "#"-qualified front-matter tags.
C6_ManageTagsUnion ==
    tres.op = "manage_tags" =>
        /\ StrictlySorted(tres.result)
        /\ Range(tres.result) = InlineTagSet(files[Note]) \cup FrontTagSet(files[Note])

\* C7: after add_tags(path, tags) returned, a second call with the same
\* arguments leaves the content as the first call left it.
C7_AddTagsIdempotent ==
    (tres.op = "add_tags" /\ tres.ok) =>
        add_tags(files[Note], tres.tags).content = files[Note]

\* C8: after remove_tags(path, T) returned, manage_tags reports no tag of T.
C8_RemovedTagsNotReported ==
    (tres.op = "remove_tags" /\ tres.ok) =>
        RequestedTags \cap Range(manage_tags(files[Note])) = {}

\* C9: a note rewritten by remove_tags has no empty `tags` list and no empty
\* front-matter block; when every front-matter tag was requested the `tags`
\* key is gone, and when the mapping had no other key the block is gone.
C9_NoEmptyTagsKey ==
    (tres.op = "remove_tags" /\ tres.wrote) =>
        LET before == tres.before
            after == files[Note]
            all_removed == before.fm # <<>> /\ FrontTagSet(before) \subseteq RequestedTags
        IN /\ after.fm # <<>> =>
                /\ ~(after.fm[1].tags.kind = "list" /\ after.fm[1].tags.items = <<>>)
                /\ after.fm[1].tags.kind # "absent" \/ after.fm[1].other
           /\ all_removed =>
                \/ after.fm = <<>>
                \/ after.fm[1].tags.kind = "absent"
           /\ (all_removed /\ ~before.fm[1].other) => after.fm = <<>>
           /\ before.fm = <<>> => after.fm = <<>>

\* C9 witness: the only front-matter tag was removed and the block dropped.
C9_Witness ==
    /\ tres.op = "remove_tags"
    /\ tres.wrote
    /\ tres.before.fm # <<>>
    /\ tres.before.fm[1].tags.kind = "list"
    /\ tres.before.fm[1].tags.items # <<>>
    /\ files[Note].fm = <<>>

\* The number of inline occurrences of tag in a body.
InlineOccurrences(body, tag) ==
    Cardinality({i \in DOMAIN finditer(body, 1) : finditer(body, 1)[i] = tag})

\* The number of front-matter tags of a content equal to tag.
FrontOccurrences(content, tag) ==
    Cardinality({t \in FrontEntries(content) : Qualified(t) = tag})

RECURSIVE SumOver(_, _, _)
SumOver(fs, names, tag) ==
    IF names = {} THEN 0
    ELSE LET f == CHOOSE x \in names : TRUE
         IN InlineOccurrences(fs[f].body, tag) + FrontOccurrences(fs[f], tag)
            + SumOver(fs, names \ {f}, tag)

\* C10: rename_tag returns the number of inline occurrences of old plus the
\* number of front-matter tags equal to old, summed over the .md files.
C10_RenameCountsOnlyOld ==
    (tres.op = "rename_tag" /\ tres.ok) =>
        tres.count = SumOver(tres.before, MdFiles, Qualified(tres.old))

\* old occurs in a content: as an inline tag of the body or as a
\* front-matter tag.
Occurs(content, tag) ==
    tag \in InlineTagSet(content) \cup FrontTagSet(content)

\* C11: rename_tag writes only files in which old occurs; a .md file without
\* old is not written and keeps its content.
C11_RenameWritesOnlyMatches ==
    (tres.op = "rename_tag" /\ tres.ok) =>
        \A f \in MdFiles :
            ~Occurs(tres.before[f], Qualified(tres.old)) =>
                /\ f \notin tres.written
                /\ files[f] = tres.before[f]

\* C12: remove_tags(path, T) on a note in which no tag of T occurs returns
\* without writing and leaves the content as it was.
C12_RemoveAbsentIsNoop ==
    (tres.op = "remove_tags"
        /\ \A t \in RequestedTags :
                strip(t) # <<Hash>> /\ ~Occurs(tres.before, t)) =>
        /\ tres.ok
        /\ ~tres.wrote
        /\ files[Note] = tres.before

\* The requested tags, "#"-qualified, that the note did not carry before the
\* call, in the order of the request.
MissingTags ==
    SelectSeq([i \in DOMAIN tres.tags |-> Qualified(tres.tags[i])],
              LAMBDA t : ~Occurs(tres.before, t))

\* The tags of a list on one line, separated by single spaces.
RECURSIVE TagLine(_)
TagLine(ts) ==
    IF ts = <<>> THEN <<>>
    ELSE IF Len(ts) = 1 THEN ts[1]
    ELSE ts[1] \o <<" ">> \o TagLine(Tail(ts))

\* The front-matter block of the note after add_tags: the `tags` key holds
\* the sorted, duplicate-free merge, the other keys are kept.
MergedBlock ==
    /\ files[Note].fm # <<>>
    /\ files[Note].fm[1].other = tres.before.fm[1].other
    /\ files[Note].fm[1].tags.kind = "list"
    /\ StrictlySorted(files[Note].fm[1].tags.items)
    /\ Range(files[Note].fm[1].tags.items) =
           FrontEntries(tres.before) \cup {Tail(t) : t \in Range(MissingTags)}

\* The body of the note after add_tags appended its tag line: the body
\* before the call, closed by a newline, then the missing tags on one line.
BodyWithTagLine ==
    files[Note].body =
        (IF tres.before.body = <<>> \/ Last(tres.before.body) # NL
         THEN tres.before.body \o <<NL>> ELSE tres.before.body)
        \o TagLine(MissingTags) \o <<NL>>

WordChars == TagCharClass \ {"-", "/"}

\* The positions of a text where an inline tag starts: a "#" at the start
\* or after a character that is neither a word character nor "/", followed
\* by a tag character.
TagStarts(text) ==
    {i \in DOMAIN text :
        /\ text[i] = Hash
        /\ i = 1 \/ text[i - 1] \notin WordChars \cup {"/"}
        /\ i < Len(text)
        /\ text[i + 1] \in TagCharClass}

\* The tag that starts at position i: the "#" and the longest run of tag
\* characters after it.
TagFrom(text, i) ==
    LET ends == {j \in (i + 1)..Len(text) :
                    \A k \in (i + 1)..j : text[k] \in TagCharClass}
    IN SubSeq(text, i, MaxOf(ends))

\* C14: the inline tags reported for a note without front-matter are the
\* tags that start at a "#" not preceded by a word character or "/".
C14_InlineTagBoundary ==
    (tres.op = "manage_tags" /\ tres.before.fm = <<>>) =>
        Range(tres.result) =
            {TagFrom(tres.before.body, i) : i \in TagStarts(tres.before.body)}

\* C15: when a read or a write fails during rename_tag's walk, the files
\* rewritten before the failure keep their new content, the files the walk
\* did not rewrite or fail on are as before, and the answer carries the
\* replacement count accumulated before the failure.
C15_PartialCountOnFailure ==
    (tres.op = "rename_tag" /\ tres.err = "OSError") =>
        /\ ~tres.ok
        /\ \A f \in tres.written :
               files[f] = rename_in_file(tres.before[f], normalize_tag(tres.old),
                                         normalize_tag(tres.new)).content
        /\ Cardinality({f \in MdFiles \ tres.written : files[f] # tres.before[f]}) <= 1
        /\ tres.replacements = <<tres.count>>

\* C16: manage_tags reports each front-matter tag with exactly one leading
\* "#": an entry that starts with "#" is reported as it is, any other with
\* a "#" put in front.
C16_FrontTagsQualifiedOnce ==
    tres.op = "manage_tags" =>
        \A t \in FrontEntries(tres.before) :
            IF t[1] = Hash THEN t \in Range(tres.result)
            ELSE <<Hash>> \o t \in Range(tres.result)

\* The content found at the path a resolution answered, none when the
\* resolution failed or no note is there.
ContentAt(fs, answer) ==
    IF answer.ok /\ exists(fs, answer.path)
    THEN {fs.notes[resolve(answer.path).parts]} ELSE {}

\* C17: after a call of move_note whose source held a note, the content of
\* that note is at the source path or at the destination path.
C17_MoveNeverLosesNote ==
    tres.op = "move_note" =>
        LET source == resolve_note_path(tres.src, vaults)
            destination == resolve_note_path(tres.dst, vaults)
            held == ContentAt(tres.before, source)
        IN held \subseteq ContentAt(files, source) \cup ContentAt(files, destination)

====
